---- MODULE Spec2Model ----
(***************************************************************************)
(* ciborium-rpc: the message data model (proto/mod.rs), the v0 wire        *)
(* format (proto/v0.rs) and the buffer transport (transport.rs), with the  *)
(* serde derives and the ciborium encoder/decoder they drive modelled at   *)
(* the level of CBOR items.                                                *)
(*                                                                         *)
(* Numbers.  TLC's integers are 32 bits wide, so a 64-bit unsigned number   *)
(* is a tuple of four 16-bit limbs, most significant first, and a CBOR     *)
(* integer (ciborium's Integer, -2^64 .. 2^64-1) is a sign and a magnitude *)
(* as on the wire: [neg |-> FALSE, mag |-> m] is m and                     *)
(* [neg |-> TRUE, mag |-> m] is -1 - m.                                    *)
(*                                                                         *)
(* The wire.  A buffer is a sequence of CBOR item heads ("tokens"): a      *)
(* scalar is one token, an array or map head is followed by its items, an  *)
(* indefinite-length map ends with a break, a tag head is followed by the  *)
(* tagged item.  A read consumes tokens from the front.                    *)
(***************************************************************************)
EXTENDS Integers, Sequences, FiniteSets, TLC

VARIABLES
    buffer,   \* BufTransport.buffer: the tokens written and not yet read
    sent,     \* history: the messages sent so far, in order
    okreads,  \* history: the number of reads that returned Ok
    last,     \* the last transport call: its name, its result, the buffer before it
    conv      \* the last conversion call: its name, its input, its result

vars == <<buffer, sent, okreads, last, conv>>

(* ----- numbers --------------------------------------------------------- *)

U64(n) == <<0, 0, 0, n>>                      \* a small number as a u64
U64_MAX == <<65535, 65535, 65535, 65535>>
I64_MAX == <<32767, 65535, 65535, 65535>>

\* a <= b on u64 limbs
U64Le(a, b) ==
    \/ a = b
    \/ \E i \in 1..4 : a[i] < b[i] /\ \A j \in 1..(i - 1) : a[j] = b[j]

Pos(m) == [neg |-> FALSE, mag |-> m]
Neg(m) == [neg |-> TRUE, mag |-> m]           \* the integer -1 - m

(* ----- Option and Result ------------------------------------------------ *)

None == [k |-> "None"]
Some(x) == [k |-> "Some", x |-> x]
Ok(x) == [k |-> "Ok", x |-> x]
Err(e) == [k |-> "Err", e |-> e]
Unit == [k |-> "unit"]

(* ----- ciborium::value::Value ------------------------------------------- *)

Integer(i) == [k |-> "int", i |-> i]
IntV(n) == Integer(Pos(U64(n)))
Text(s) == [k |-> "text", s |-> s]
Bytes(b) == [k |-> "bytes", b |-> b]
Float(f) == [k |-> "float", f |-> f]
Bool(b) == [k |-> "bool", bo |-> b]
Null == [k |-> "null"]
Array(a) == [k |-> "array", a |-> a]
Map(m) == [k |-> "map", m |-> m]              \* m: a sequence of <<key, value>>
Tag(t, v) == [k |-> "tag", t |-> t, v |-> v]
\* what serde's serialize_map(None) writes: a map of indefinite length
IMap(m) == [k |-> "imap", m |-> m]

(* ----- the typed model (proto/mod.rs) ----------------------------------- *)

MString(s) == [k |-> "MethodID::String", s |-> s]
MNumber(u) == [k |-> "MethodID::Number", u |-> u]
RNumber(u) == [k |-> "RequestID::Number", u |-> u]
RString(s) == [k |-> "RequestID::String", s |-> s]
RBinary(b) == [k |-> "RequestID::Binary", b |-> b]
PArray(a) == [k |-> "Params::Array", a |-> a]
PNamed(nv) == [k |-> "Params::Named", nv |-> nv]   \* nv: a sequence of <<name, value>>
ErrorValue(code, message, data) == [code |-> code, message |-> message, data |-> data]
Request(method, params, req_id) == [method |-> method, params |-> params, req_id |-> req_id]
ResOk(v) == [k |-> "Ok", x |-> v]
ResErr(ev) == [k |-> "Err", ev |-> ev]
Response(result, req_id) == [result |-> result, req_id |-> req_id]

TAG_ID_RPCV0 == <<0, 0, 61599, 36013>>        \* 4036988077 = 61599 * 65536 + 36013

(* ----- Params::is_empty / into_option (proto/mod.rs) -------------------- *)

is_empty(p) ==
    CASE p.k = "Params::Array" -> Len(p.a) = 0
      [] p.k = "Params::Named" -> Len(p.nv) = 0

\* into_option without the emptiness test: an empty Params stays Some
into_option_keeps_empty(p) == Some(p)

into_option(p) == IF is_empty(p) THEN None ELSE Some(p)

(* ----- Value -> typed conversions (proto/mod.rs) ------------------------ *)

\* u64::try_from(ciborium Integer): the integer must lie in 0 ..= u64::MAX
U64TryFrom(i) ==
    IF ~i.neg /\ U64Le(i.mag, U64_MAX) THEN Ok([u |-> i.mag]) ELSE Err("TryFromIntError")

\* to_keyval reporting a non-text key as a wrong parameter type
to_keyval_wrong_error(pair) ==
    IF pair[1].k = "text" THEN Ok([nv |-> <<pair[1].s, pair[2]>>])
    ELSE Err("InvalidParamType")

to_keyval(pair) ==
    IF pair[1].k = "text" THEN Ok([nv |-> <<pair[1].s, pair[2]>>])
    ELSE Err("InvalidKeyType")

\* m.into_iter().map(to_keyval).collect::<Result<_, _>>(): the pairs in
\* order, or the error of the first pair that fails
RECURSIVE CollectKeyval(_, _)
CollectKeyval(m, acc) ==
    IF m = <<>> THEN Ok([nv |-> acc])
    ELSE LET r == to_keyval(Head(m))
         IN IF r.k = "Err" THEN r
            ELSE CollectKeyval(Tail(m), Append(acc, r.x.nv))

ParamsTryFrom(value) ==
    CASE value.k = "array" -> Ok(PArray(value.a))
      [] value.k = "map" ->
            LET r == CollectKeyval(value.m, <<>>)
            IN IF r.k = "Err" THEN r ELSE Ok(PNamed(r.x.nv))
      [] OTHER -> Err("InvalidParamType")

\* RequestID::try_from going through i64 instead of u64: integers above
\* i64::MAX are refused
RequestIDTryFrom_i64(value) ==
    CASE value.k = "int" ->
            IF ~value.i.neg /\ U64Le(value.i.mag, I64_MAX)
            THEN Ok(RNumber(value.i.mag)) ELSE Err("InvalidRequestID")
      [] value.k = "text" -> Ok(RString(value.s))
      [] value.k = "bytes" -> Ok(RBinary(value.b))
      [] OTHER -> Err("InvalidRequestID")

RequestIDTryFrom(value) ==
    CASE value.k = "int" ->
            LET r == U64TryFrom(value.i)
            IN IF r.k = "Ok" THEN Ok(RNumber(r.x.u)) ELSE Err("InvalidRequestID")
      [] value.k = "text" -> Ok(RString(value.s))
      [] value.k = "bytes" -> Ok(RBinary(value.b))
      [] OTHER -> Err("InvalidRequestID")

\* MethodID::try_from with the fallback arm of RequestID::try_from
MethodIDTryFrom_wrong_error(value) ==
    CASE value.k = "int" ->
            LET r == U64TryFrom(value.i)
            IN IF r.k = "Ok" THEN Ok(MNumber(r.x.u)) ELSE Err("InvalidMethodID")
      [] value.k = "text" -> Ok(MString(value.s))
      [] OTHER -> Err("InvalidRequestID")

MethodIDTryFrom(value) ==
    CASE value.k = "int" ->
            LET r == U64TryFrom(value.i)
            IN IF r.k = "Ok" THEN Ok(MNumber(r.x.u)) ELSE Err("InvalidMethodID")
      [] value.k = "text" -> Ok(MString(value.s))
      [] OTHER -> Err("InvalidMethodID")

(* ----- typed -> Value conversions (proto/mod.rs) ------------------------ *)

\* From<Params> for Value writing named params as the wire format does: an
\* array of [name, value] arrays
ParamsToValue_as_pairs(params) ==
    CASE params.k = "Params::Array" -> Array(params.a)
      [] params.k = "Params::Named" ->
            Array([j \in 1..Len(params.nv) |->
                      Array(<<Text(params.nv[j][1]), params.nv[j][2]>>)])

ParamsToValue(params) ==
    CASE params.k = "Params::Array" -> Array(params.a)
      [] params.k = "Params::Named" ->
            Map([j \in 1..Len(params.nv) |-> <<Text(params.nv[j][1]), params.nv[j][2]>>])

RequestIDToValue(r) ==
    CASE r.k = "RequestID::Binary" -> Bytes(r.b)
      [] r.k = "RequestID::Number" -> Integer(Pos(r.u))
      [] r.k = "RequestID::String" -> Text(r.s)

MethodIDToValue(m) ==
    CASE m.k = "MethodID::Number" -> Integer(Pos(m.u))
      [] m.k = "MethodID::String" -> Text(m.s)

(* ----- v0 messages as CBOR items (serde Serialize, proto/v0.rs) --------- *)

\* RPCMsg(Required<Msg, TAG_ID_RPCV0>) with Msg::Request(r) or Msg::Response(r)
MsgRequest(r) == [k |-> "Msg::Request", r |-> r]
MsgResponse(r) == [k |-> "Msg::Response", r |-> r]

\* #[serde(untagged)] MethodID: the variant's content, with no marker
SerMethodID(m) ==
    CASE m.k = "MethodID::String" -> Text(m.s)
      [] m.k = "MethodID::Number" -> Integer(Pos(m.u))

\* #[serde(untagged)] RequestID; a Vec<u8> is serialized as a sequence of u8
SerRequestID(r) ==
    CASE r.k = "RequestID::Number" -> Integer(Pos(r.u))
      [] r.k = "RequestID::String" -> Text(r.s)
      [] r.k = "RequestID::Binary" -> Array([j \in 1..Len(r.b) |-> IntV(r.b[j])])

\* #[serde(untagged)] Params; a Vec<(String, Value)> is serialized as a
\* sequence of 2-tuples
SerParams(p) ==
    CASE p.k = "Params::Array" -> Array(p.a)
      [] p.k = "Params::Named" ->
            Array([j \in 1..Len(p.nv) |-> Array(<<Text(p.nv[j][1]), p.nv[j][2]>>)])

\* ErrorValue: data is skipped when it is None
SerErrorValue(e) ==
    Map(<<<<Text("code"), Integer(e.code)>>, <<Text("message"), Text(e.message)>>>>
        \o (IF e.data.k = "None" THEN <<>> ELSE <<<<Text("data"), e.data.x>>>>))

\* RequestMsg: fn, then args and id unless Option::is_none
\* RequestMsg skipping params with Params::is_empty as well as None
SerRequest_skip_empty(r) ==
    Map(<<<<Text("fn"), SerMethodID(r.method)>>>>
        \o (IF r.params.k = "None" \/ is_empty(r.params.x) THEN <<>>
            ELSE <<<<Text("args"), SerParams(r.params.x)>>>>)
        \o (IF r.req_id.k = "None" THEN <<>>
            ELSE <<<<Text("id"), SerRequestID(r.req_id.x)>>>>))

SerRequest(r) ==
    Map(<<<<Text("fn"), SerMethodID(r.method)>>>>
        \o (IF r.params.k = "None" THEN <<>>
            ELSE <<<<Text("args"), SerParams(r.params.x)>>>>)
        \o (IF r.req_id.k = "None" THEN <<>>
            ELSE <<<<Text("id"), SerRequestID(r.req_id.x)>>>>))

\* ResultMsg, flattened into ResponseMsg: one entry named after the variant
SerResult(res) ==
    CASE res.k = "Ok" -> <<Text("ok"), res.x>>
      [] res.k = "Err" -> <<Text("err"), SerErrorValue(res.ev)>>

\* ResponseMsg: a struct with a flattened field is written with
\* serialize_map(None), a map of indefinite length
SerResponse(r) == IMap(<<SerResult(r.result), <<Text("id"), SerRequestID(r.req_id)>>>>)

SerMsg(msg) ==
    CASE msg.k = "Msg::Request" -> SerRequest(msg.r)
      [] msg.k = "Msg::Response" -> SerResponse(msg.r)

SerRPCMsg(msg) == Tag(TAG_ID_RPCV0, SerMsg(msg))

(* ----- ciborium::ser::into_writer: CBOR items to tokens ----------------- *)

Concat(seqs) ==
    LET RECURSIVE cat(_)
        cat(j) == IF j > Len(seqs) THEN <<>> ELSE seqs[j] \o cat(j + 1)
    IN cat(1)

RECURSIVE Encode(_)
Encode(v) ==
    CASE v.k = "int" -> <<[h |-> "int", i |-> v.i]>>
      [] v.k = "text" -> <<[h |-> "text", s |-> v.s]>>
      [] v.k = "bytes" -> <<[h |-> "bytes", b |-> v.b]>>
      [] v.k = "float" -> <<[h |-> "float", f |-> v.f]>>
      [] v.k = "bool" -> <<[h |-> "bool", bo |-> v.bo]>>
      [] v.k = "null" -> <<[h |-> "null"]>>
      [] v.k = "array" ->
            <<[h |-> "array", n |-> Len(v.a)]>>
            \o Concat([j \in 1..Len(v.a) |-> Encode(v.a[j])])
      [] v.k = "map" ->
            <<[h |-> "map", n |-> Len(v.m)]>>
            \o Concat([j \in 1..Len(v.m) |-> Encode(v.m[j][1]) \o Encode(v.m[j][2])])
      [] v.k = "imap" ->
            <<[h |-> "imap"]>>
            \o Concat([j \in 1..Len(v.m) |-> Encode(v.m[j][1]) \o Encode(v.m[j][2])])
            \o <<[h |-> "break"]>>
      [] v.k = "tag" -> <<[h |-> "tag", t |-> v.t]>> \o Encode(v.v)

(* ----- ciborium::de: tokens to items ------------------------------------ *)

\* The result of reading one item: pos is the first token not yet pulled
\* from the reader (tokens before it are gone from the buffer, also when
\* the read failed).
PDone(v, pos) == [ok |-> TRUE, v |-> v, pos |-> pos, err |-> "none"]
PFail(e, pos) == [ok |-> FALSE, v |-> Null, pos |-> pos, err |-> e]

\* Deserializer::deserialize_any driving a visitor.  content = FALSE: the
\* visitor is Value's own (read_cbor).  content = TRUE: the visitor is
\* serde's ContentVisitor, which buffers the item for an untagged enum and
\* has no visit_enum (a tag) and no visit_i128 (a negative integer below
\* i64::MIN).  On a tag the decoder pulls the tag head, then pulls the next
\* head to look at it, and only then calls visit_enum.
\* (Tags 2 and 3 on a byte string are bignums and are not modelled.)
RECURSIVE ParseItem(_, _, _), ParseSeq(_, _, _, _, _), ParsePairs(_, _, _, _, _),
          ParseIndef(_, _, _, _)
ParseItem(toks, pos, content) ==
    IF pos > Len(toks) THEN PFail("Io", pos)
    ELSE LET t == toks[pos] IN
      CASE t.h = "int" ->
             IF content /\ t.i.neg /\ ~U64Le(t.i.mag, I64_MAX)
             THEN PFail("Semantic", pos + 1)
             ELSE PDone(Integer(t.i), pos + 1)
        [] t.h = "text" -> PDone(Text(t.s), pos + 1)
        [] t.h = "bytes" -> PDone(Bytes(t.b), pos + 1)
        [] t.h = "float" -> PDone(Float(t.f), pos + 1)
        [] t.h = "bool" -> PDone(Bool(t.bo), pos + 1)
        [] t.h = "null" -> PDone(Null, pos + 1)
        [] t.h = "break" -> PFail("Syntax", pos + 1)
        [] t.h = "array" ->
             LET r == ParseSeq(toks, pos + 1, t.n, <<>>, content)
             IN IF r.ok THEN PDone(Array(r.v.a), r.pos) ELSE r
        [] t.h = "map" ->
             LET r == ParsePairs(toks, pos + 1, t.n, <<>>, content)
             IN IF r.ok THEN PDone(Map(r.v.a), r.pos) ELSE r
        [] t.h = "imap" ->
             LET r == ParseIndef(toks, pos + 1, <<>>, content)
             IN IF r.ok THEN PDone(Map(r.v.a), r.pos) ELSE r
        [] t.h = "tag" ->
             IF pos + 1 > Len(toks) THEN PFail("Io", pos + 1)
             ELSE IF content THEN PFail("Semantic", pos + 2)
             ELSE LET r == ParseItem(toks, pos + 1, content)
                  IN IF r.ok THEN PDone(Tag(t.t, r.v), r.pos) ELSE r

ParseSeq(toks, pos, n, acc, content) ==
    IF n = 0 THEN PDone([a |-> acc], pos)
    ELSE LET r == ParseItem(toks, pos, content)
         IN IF r.ok THEN ParseSeq(toks, r.pos, n - 1, Append(acc, r.v), content) ELSE r

ParsePairs(toks, pos, n, acc, content) ==
    IF n = 0 THEN PDone([a |-> acc], pos)
    ELSE LET key == ParseItem(toks, pos, content)
         IN IF ~key.ok THEN key
            ELSE LET val == ParseItem(toks, key.pos, content)
                 IN IF ~val.ok THEN val
                    ELSE ParsePairs(toks, val.pos, n - 1, Append(acc, <<key.v, val.v>>),
                                    content)

ParseIndef(toks, pos, acc, content) ==
    IF pos > Len(toks) THEN PFail("Io", pos)
    ELSE IF toks[pos].h = "break" THEN PDone([a |-> acc], pos + 1)
    ELSE LET key == ParseItem(toks, pos, content)
         IN IF ~key.ok THEN key
            ELSE LET val == ParseItem(toks, key.pos, content)
                 IN IF ~val.ok THEN val
                    ELSE ParseIndef(toks, val.pos, Append(acc, <<key.v, val.v>>), content)

(* ----- serde Deserialize of the typed model from a buffered item -------- *)
(* An untagged enum buffers the item (serde's Content) and tries each      *)
(* variant against the buffer.  A buffered item has the shape of a Value   *)
(* without tags, and is written here as one; Value::deserialize from the   *)
(* buffer returns the Value of the same shape.                             *)

\* The UTF-8 bytes of the strings that occur as byte strings in the model;
\* a byte string outside this table is not valid UTF-8 (the model's other
\* byte strings hold a byte >= 0x80).
Utf8 ==
    ("fn" :> <<102, 110>>) @@ ("args" :> <<97, 114, 103, 115>>) @@ ("id" :> <<105, 100>>)
    @@ ("ok" :> <<111, 107>>) @@ ("err" :> <<101, 114, 114>>)
    @@ ("code" :> <<99, 111, 100, 101>>) @@ ("data" :> <<100, 97, 116, 97>>)
    @@ ("message" :> <<109, 101, 115, 115, 97, 103, 101>>)

FromUtf8(b) ==
    IF \E s \in DOMAIN Utf8 : Utf8[s] = b
    THEN Ok([s |-> CHOOSE s \in DOMAIN Utf8 : Utf8[s] = b])
    ELSE Err("Utf8Error")

\* String::deserialize: visit_str, or visit_bytes when the bytes are UTF-8
DeString(c) ==
    CASE c.k = "text" -> Ok([s |-> c.s])
      [] c.k = "bytes" -> FromUtf8(c.b)
      [] OTHER -> Err("invalid type")

\* u64::deserialize
DeU64(c) ==
    IF c.k = "int" /\ ~c.i.neg THEN Ok([u |-> c.i.mag]) ELSE Err("invalid type")

\* i64::deserialize
DeI64(c) ==
    IF c.k = "int" /\ U64Le(c.i.mag, I64_MAX) THEN Ok([i |-> c.i]) ELSE Err("invalid type")

\* u8::deserialize
IsU8(c) ==
    /\ c.k = "int"
    /\ ~c.i.neg
    /\ \A j \in 1..3 : c.i.mag[j] = 0
    /\ c.i.mag[4] < 256

\* Result::and_then, Result::or, Result::map_err
AndThen(r, F(_)) == IF r.k = "Ok" THEN F(r.x) ELSE r
OrElse(r, alt) == IF r.k = "Ok" THEN r ELSE alt
MapErr(r, e) == IF r.k = "Ok" THEN r ELSE Err(e)
MapErrWith(r, F(_)) == IF r.k = "Ok" THEN r ELSE Err(F(r.e))

\* MethodID, untagged: String(String), then Number(u64)
DeMethodID(c) ==
    MapErr(OrElse(AndThen(DeString(c), LAMBDA x : Ok(MString(x.s))),
                  AndThen(DeU64(c), LAMBDA x : Ok(MNumber(x.u)))),
           "no variant")

\* Vec<u8>::deserialize: a sequence of u8 (a byte string is not one)
DeVecU8(c) ==
    IF c.k = "array" /\ \A j \in 1..Len(c.a) : IsU8(c.a[j])
    THEN Ok([b |-> [j \in 1..Len(c.a) |-> c.a[j].i.mag[4]]])
    ELSE Err("invalid type")

\* RequestID, untagged: Number(u64), then String(String), then Binary(Vec<u8>)
DeRequestID(c) ==
    MapErr(OrElse(AndThen(DeU64(c), LAMBDA x : Ok(RNumber(x.u))),
           OrElse(AndThen(DeString(c), LAMBDA x : Ok(RString(x.s))),
                  AndThen(DeVecU8(c), LAMBDA x : Ok(RBinary(x.b))))),
           "no variant")

\* Value::deserialize from a buffered item
DeValue(c) == Ok(c)

\* Vec<Value>::deserialize: a sequence
DeVecValue(c) == IF c.k = "array" THEN Ok([a |-> c.a]) ELSE Err("invalid type")

\* (String, Value)::deserialize: a sequence of exactly two items
IsNamePair(c) == c.k = "array" /\ Len(c.a) = 2 /\ DeString(c.a[1]).k = "Ok"

\* Vec<(String, Value)>::deserialize: a sequence of such pairs
DeVecNamed(c) ==
    IF c.k = "array" /\ \A j \in 1..Len(c.a) : IsNamePair(c.a[j])
    THEN Ok([nv |-> [j \in 1..Len(c.a) |-> <<DeString(c.a[j].a[1]).x.s, c.a[j].a[2]>>]])
    ELSE Err("invalid type")

\* Params, untagged: Array(Vec<Value>), then Named(Vec<(String, Value)>)
DeParams(c) ==
    MapErr(OrElse(AndThen(DeVecValue(c), LAMBDA x : Ok(PArray(x.a))),
                  AndThen(DeVecNamed(c), LAMBDA x : Ok(PNamed(x.nv)))),
           "no variant")

\* Option<T>::deserialize: null is None, anything else is Some
DeOption(c, De(_)) ==
    IF c.k = "null" THEN Ok(None) ELSE AndThen(De(c), LAMBDA x : Ok(Some(x)))

\* The field a map key names in a derived struct: 0 for a key that is
\* ignored, -1 for a key that is no identifier.  An identifier is a string,
\* the string's bytes, or (struct without flatten) the field's index.
FieldOf(key, names, byIndex) ==
    CASE key.k = "text" ->
            IF \E j \in 1..Len(names) : names[j] = key.s
            THEN CHOOSE j \in 1..Len(names) : names[j] = key.s ELSE 0
      [] key.k = "bytes" ->
            IF \E j \in 1..Len(names) : Utf8[names[j]] = key.b
            THEN CHOOSE j \in 1..Len(names) : Utf8[names[j]] = key.b ELSE 0
      [] key.k = "int" /\ ~key.i.neg ->
            IF byIndex /\ \E j \in 1..Len(names) : key.i.mag = U64(j - 1)
            THEN CHOOSE j \in 1..Len(names) : key.i.mag = U64(j - 1) ELSE 0
      [] OTHER -> -1

\* One entry of visit_map: the field's item is kept, an entry that names no
\* field goes to the others, in order; an error on a key that is no
\* identifier or on a field given twice.
GatherEntry(entry, f, g) ==
    IF f = -1 THEN Err("invalid type")
    ELSE IF f = 0 THEN Ok([got |-> g.got, rest |-> Append(g.rest, entry)])
    ELSE IF g.got[f].k = "Some" THEN Err("duplicate field")
    ELSE Ok([got |-> [g.got EXCEPT ![f] = Some(entry[2])], rest |-> g.rest])

RECURSIVE GatherMap(_, _, _, _)
GatherMap(m, names, byIndex, g) ==
    IF m = <<>> THEN Ok(g)
    ELSE AndThen(GatherEntry(Head(m), FieldOf(Head(m)[1], names, byIndex), g),
                 LAMBDA g2 : GatherMap(Tail(m), names, byIndex, g2))

\* A derived struct without flatten reads a map, or a sequence holding
\* every field in order.
Gather(c, names) ==
    CASE c.k = "map" ->
            GatherMap(c.m, names, TRUE, [got |-> [j \in 1..Len(names) |-> None], rest |-> <<>>])
      [] c.k = "array" ->
            IF Len(c.a) = Len(names)
            THEN Ok([got |-> [j \in 1..Len(names) |-> Some(c.a[j])], rest |-> <<>>])
            ELSE Err("invalid length")
      [] OTHER -> Err("invalid type")

\* An Option field that is absent is None
DeOptField(f, De(_)) == IF f.k = "None" THEN Ok(None) ELSE DeOption(f.x, De)
\* Any other field must be present
DeField(f, De(_)) == IF f.k = "None" THEN Err("missing field") ELSE De(f.x)

\* ErrorValue {code: i64, message: String, data: Option<Value>}
DeErrorValue(c) ==
    AndThen(Gather(c, <<"code", "message", "data">>), LAMBDA g :
    AndThen(DeField(g.got[1], DeI64), LAMBDA code :
    AndThen(DeField(g.got[2], DeString), LAMBDA message :
    AndThen(DeOptField(g.got[3], DeValue), LAMBDA data :
    Ok(ErrorValue(code.i, message.s, data))))))

\* RequestMsg {fn: MethodID, args: Option<Params>, id: Option<RequestID>}
DeRequest(c) ==
    AndThen(Gather(c, <<"fn", "args", "id">>), LAMBDA g :
    AndThen(DeField(g.got[1], DeMethodID), LAMBDA method :
    AndThen(DeOptField(g.got[2], DeParams), LAMBDA params :
    AndThen(DeOptField(g.got[3], DeRequestID), LAMBDA req_id :
    Ok(Request(method, params, req_id))))))

\* Content::as_str of a flattened entry's key
KeyStr(key) == IF key.k \in {"text", "bytes"} THEN DeString(key) ELSE Err("not a string")

IsVariantKey(key) == KeyStr(key).k = "Ok" /\ KeyStr(key).x.s \in {"ok", "err"}

\* ResultMsg::Ok(Value) or ResultMsg::Err(ErrorValue) from the entry taken
DeVariant(entry) ==
    IF KeyStr(entry[1]).x.s = "ok" THEN Ok(ResOk(entry[2]))
    ELSE AndThen(DeErrorValue(entry[2]), LAMBDA ev : Ok(ResErr(ev)))

\* ResultMsg from the flattened entries: the first entry whose key is the
\* name of a variant
RECURSIVE DeResult(_)
DeResult(rest) ==
    IF rest = <<>> THEN Err("no variant found in flattened data")
    ELSE IF IsVariantKey(Head(rest)[1]) THEN DeVariant(Head(rest))
    ELSE DeResult(Tail(rest))

\* ResponseMsg {#[flatten] result, id: RequestID}: a map only
DeResponse(c) ==
    IF c.k # "map" THEN Err("invalid type")
    ELSE AndThen(GatherMap(c.m, <<"id">>, FALSE, [got |-> <<None>>, rest |-> <<>>]), LAMBDA g :
         AndThen(DeField(g.got[1], DeRequestID), LAMBDA req_id :
         AndThen(DeResult(g.rest), LAMBDA result :
         Ok(Response(result, req_id)))))

\* Msg, untagged: Request, then Response
DeMsg(c) ==
    MapErr(OrElse(AndThen(DeRequest(c), LAMBDA r : Ok(MsgRequest(r))),
                  AndThen(DeResponse(c), LAMBDA r : Ok(MsgResponse(r)))),
           "Semantic")

(* ----- RPCMsg and the transports (proto/v0.rs, transport.rs, error.rs) -- *)

\* TryFrom<RPCMsg> for Request
TryIntoRequest(msg) ==
    CASE msg.k = "Msg::Request" -> Ok(msg.r)
      [] msg.k = "Msg::Response" -> Err("UnexpectedMessage")

\* TryFrom<RPCMsg> for Response
TryIntoResponse(msg) ==
    CASE msg.k = "Msg::Request" -> Err("UnexpectedMessage")
      [] msg.k = "Msg::Response" -> Ok(msg.r)

\* From<ciborium::de::Error<E>> for TransportError
FromDeError(e) ==
    CASE e = "Io" -> "Io"
      [] e = "Semantic" -> "Decode"
      [] e = "Syntax" -> "Decode"
      [] e = "RecursionLimitExceeded" -> "Decode"

\* From<ProtocolError> for TransportError
FromProtocolError(e) ==
    CASE e = "UnexpectedMessage" -> "Proto(UnexpectedMessage)"
      [] e = "InvalidMessage" -> "Proto(InvalidMessage)"
      [] e = "InvalidMethodID" -> "Proto(InvalidMethodID)"
      [] e = "InvalidRequestID" -> "Proto(InvalidRequestID)"
      [] e = "InvalidParamType" -> "Proto(InvalidParamType)"
      [] e = "InvalidKeyType" -> "Proto(InvalidKeyType)"

\* Required<Msg, TAG>::deserialize once the item after the tag head (if
\* any) has been buffered: the Msg is deserialized first, the tag compared
\* after
\* Required accepting whatever tag, or no tag, precedes the message
Required_any_tag(head, c) ==
    IF ~c.ok THEN Err(c.err) ELSE DeMsg(c.v)

Required(head, c) ==
    IF ~c.ok THEN Err(c.err)
    ELSE AndThen(DeMsg(c.v), LAMBDA msg :
         IF head.h = "tag" /\ head.t = TAG_ID_RPCV0 THEN Ok(msg) ELSE Err("Semantic"))

\* What a read leaves in the buffer
Rest(buf, c) == SubSeq(buf, c.pos, Len(buf))
Consumed(buf, c, res) == [res |-> res, rest |-> Rest(buf, c)]

\* RPCMsg::from_buf: ciborium::de::from_reader::<RPCMsg> on the buffer's
\* reader
FromReader(buf, c) == Consumed(buf, c, MapErrWith(Required(buf[1], c), FromDeError))
RPCMsg_from_buf(buf) ==
    IF buf = <<>> THEN [res |-> Err(FromDeError("Io")), rest |-> buf]
    ELSE FromReader(buf, ParseItem(buf, IF buf[1].h = "tag" THEN 2 ELSE 1, TRUE))

\* RPCMsg::into_buf_mut after RPCMsg::from
RPCMsg_into_buf_mut(msg, buf) == buf \o Encode(SerRPCMsg(msg))

\* the `?` and try_into()? of the read methods
TryInto(m, Into(_)) ==
    [res |-> AndThen(m.res, LAMBDA msg : MapErrWith(Into(msg), FromProtocolError)),
     rest |-> m.rest]

\* ServerTransport::read_request for BufTransport<B>
read_request(buf) == TryInto(RPCMsg_from_buf(buf), TryIntoRequest)

\* read_response putting the frame back when the message is of the wrong
\* kind
read_response_keeps_frame(buf) ==
    LET r == TryInto(RPCMsg_from_buf(buf), TryIntoResponse)
    IN IF r.res.k = "Err" /\ r.res.e = "Proto(UnexpectedMessage)"
       THEN [res |-> r.res, rest |-> buf] ELSE r

\* ClientTransport::read_response for BufTransport<B>
read_response(buf) == TryInto(RPCMsg_from_buf(buf), TryIntoResponse)

\* CBORTransport::read_cbor for BufTransport<B>
FromReaderValue(buf, c) ==
    Consumed(buf, c, IF c.ok THEN Ok(c.v) ELSE Err(FromDeError(c.err)))
read_cbor(buf) == FromReaderValue(buf, ParseItem(buf, 1, FALSE))

\* ClientTransport::send_request, ServerTransport::send_response,
\* CBORTransport::send_cbor for BufTransport<B>
send_request(request, buf) == RPCMsg_into_buf_mut(MsgRequest(request), buf)
send_response(response, buf) == RPCMsg_into_buf_mut(MsgResponse(response), buf)
send_cbor(value, buf) == buf \o Encode(value)

(* ----- the inputs of the model ------------------------------------------ *)

MaxSends == 1      \* calls of send_* on the transport of Spec
MaxStream == 3     \* calls of send_* on the transport of SpecStream
MaxLen == 2        \* elements of an array or map handed to a conversion

OtherTag == U64(5)
Tagged5 == Tag(OtherTag, Array(<<IntV(1)>>))
BelowI64 == Integer(Neg(<<32768, 0, 0, 0>>))        \* i64::MIN - 1

\* Values carried inside messages
Payloads == {Text("one"), IntV(2), Null, Tagged5, BelowI64}

Methods == {MString("hello"), MNumber(U64(7))}
RequestIDs == {RNumber(U64(42)), RString("x"), RBinary(<<1, 255>>)}
ParamsSet ==
    {PArray(<<>>), PArray(<<Text("one"), IntV(2)>>), PArray(<<Tagged5>>),
     PNamed(<<>>), PNamed(<<<<"a", IntV(2)>>>>)}
\* How the caller builds Request.params: None, Some(p), or p.into_option()
ParamsBuilt ==
    {[how |-> "None", p |-> PArray(<<>>)]}
    \cup {[how |-> h, p |-> p] : h \in {"Some", "into_option"}, p \in ParamsSet}
BuildParams(b) ==
    CASE b.how = "None" -> None
      [] b.how = "Some" -> Some(b.p)
      [] b.how = "into_option" -> into_option(b.p)

ErrorValues ==
    {ErrorValue(code, "teapot", data) :
        code \in {Pos(U64(418)), Neg(U64(32599))},
        data \in {None, Some(Null), Some(IntV(2))}}
Results == {ResOk(v) : v \in Payloads} \cup {ResErr(e) : e \in ErrorValues}
Responses == {Response(res, id) : res \in Results, id \in RequestIDs}

\* What a peer may write with send_cbor: message maps with no tag or with
\* another tag, a correctly tagged request, and values that are no message
RequestMap == SerRequest(Request(MString("hello"), None, Some(RNumber(U64(42)))))
ResponseMap == Map(<<<<Text("ok"), Text("yay")>>, <<Text("id"), IntV(42)>>>>)
\* Maps that are no Response of the v0 format: no id, neither ok nor err,
\* both ok and err (in either order)
ErrorMap == SerErrorValue(ErrorValue(Pos(U64(418)), "teapot", None))
MalformedResponseMaps ==
    {Map(<<<<Text("ok"), Text("yay")>>>>),
     Map(<<<<Text("id"), IntV(42)>>>>),
     Map(<<<<Text("ok"), Text("yay")>>, <<Text("err"), ErrorMap>>, <<Text("id"), IntV(42)>>>>),
     Map(<<<<Text("err"), ErrorMap>>, <<Text("id"), IntV(42)>>, <<Text("ok"), Text("yay")>>>>)}
CborValues ==
    {RequestMap, ResponseMap, Tag(OtherTag, RequestMap), Tag(OtherTag, ResponseMap),
     Tag(TAG_ID_RPCV0, RequestMap), Tag(TAG_ID_RPCV0, ResponseMap),
     Array(<<Text("one"), Text("two")>>), IntV(7)}
    \cup {Tag(TAG_ID_RPCV0, m) : m \in MalformedResponseMaps}

\* The smaller inputs of SpecStream
StreamRequests ==
    {Request(MString("hello"), Some(PArray(<<Text("one"), IntV(2)>>)), Some(RNumber(U64(42)))),
     Request(MNumber(U64(7)), None, None),
     Request(MString("hello"), Some(PArray(<<Tagged5>>)), None)}
StreamResponses ==
    {Response(ResOk(Text("yay")), RNumber(U64(42))),
     Response(ResErr(ErrorValue(Pos(U64(418)), "teapot", None)), RString("x"))}
StreamValues == {Array(<<Text("one"), Text("two")>>), IntV(7)}

\* Values handed to the conversions
Scalars ==
    {IntV(0), IntV(42), Integer(Pos(U64_MAX)), Integer(Neg(U64(0))), BelowI64,
     Integer(Neg(U64_MAX)), Text("a"), Text(""), Bytes(<<1, 255>>), Bytes(<<>>),
     Float("1.5"), Bool(TRUE), Null,
     Tag(U64(2), Bytes(<<1, 0, 0, 0, 0, 0, 0, 0, 0>>)),       \* the bignum 2^64
     Tagged5}
Keys == {Text("a"), Text("b"), IntV(1), Null}
Elems == {IntV(1), Text("x")}
SeqsUpTo(S, n) == UNION {[1..j -> S] : j \in 0..n}
ConvValues ==
    Scalars
    \cup {Array(a) : a \in SeqsUpTo(Elems \cup {Null}, MaxLen)}
    \cup {Map(m) : m \in SeqsUpTo(Keys \X Elems, MaxLen)}

\* Typed values handed to Value::from
Names == {"a", "b"}
TypedElems == {IntV(1), Text("x"), Null, Tagged5}
TypedParams ==
    {PArray(a) : a \in SeqsUpTo(TypedElems, MaxLen)}
    \cup {PNamed(nv) : nv \in SeqsUpTo(Names \X TypedElems, MaxLen)}
TypedRequestIDs ==
    {RNumber(u) : u \in {U64(0), U64(42), U64_MAX}}
    \cup {RString(t) : t \in {"", "x"}}
    \cup {RBinary(b) : b \in SeqsUpTo({0, 1, 255}, MaxLen)}
TypedMethodIDs ==
    {MNumber(u) : u \in {U64(0), U64(7), U64_MAX}} \cup {MString(t) : t \in {"", "hello"}}

(* ----- the state machine ------------------------------------------------ *)

NoCall == [op |-> "new", arg |-> Unit, res |-> Ok(Unit), pre |-> <<>>]
NoConv == [op |-> "none", arg |-> Unit, res |-> Ok(Unit)]

\* BufTransport::new on an empty buffer
Init ==
    /\ buffer = <<>>
    /\ sent = <<>>
    /\ okreads = 0
    /\ last = NoCall
    /\ conv = NoConv

SendRequest ==
    \E m \in Methods, b \in ParamsBuilt, id \in {None} \cup {Some(i) : i \in RequestIDs} :
        /\ Len(sent) < MaxSends
        /\ buffer' = send_request(Request(m, BuildParams(b), id), buffer)
        /\ sent' = Append(sent, [op |-> "send_request",
                                 arg |-> [request |-> Request(m, BuildParams(b), id)]])
        /\ last' = [op |-> "send_request",
                    arg |-> [request |-> Request(m, BuildParams(b), id), built |-> b],
                    res |-> Ok(Unit), pre |-> buffer]
        /\ UNCHANGED <<okreads, conv>>

SendResponse ==
    \E response \in Responses :
        /\ Len(sent) < MaxSends
        /\ buffer' = send_response(response, buffer)
        /\ sent' = Append(sent, [op |-> "send_response", arg |-> [response |-> response]])
        /\ last' = [op |-> "send_response", arg |-> [response |-> response],
                    res |-> Ok(Unit), pre |-> buffer]
        /\ UNCHANGED <<okreads, conv>>

SendCbor ==
    \E value \in CborValues :
        /\ Len(sent) < MaxSends
        /\ buffer' = send_cbor(value, buffer)
        /\ sent' = Append(sent, [op |-> "send_cbor", arg |-> [value |-> value]])
        /\ last' = [op |-> "send_cbor", arg |-> [value |-> value],
                    res |-> Ok(Unit), pre |-> buffer]
        /\ UNCHANGED <<okreads, conv>>

StreamSendRequest ==
    \E request \in StreamRequests :
        /\ Len(sent) < MaxStream
        /\ buffer' = send_request(request, buffer)
        /\ sent' = Append(sent, [op |-> "send_request", arg |-> [request |-> request]])
        /\ last' = [op |-> "send_request", arg |-> [request |-> request],
                    res |-> Ok(Unit), pre |-> buffer]
        /\ UNCHANGED <<okreads, conv>>

StreamSendResponse ==
    \E response \in StreamResponses :
        /\ Len(sent) < MaxStream
        /\ buffer' = send_response(response, buffer)
        /\ sent' = Append(sent, [op |-> "send_response", arg |-> [response |-> response]])
        /\ last' = [op |-> "send_response", arg |-> [response |-> response],
                    res |-> Ok(Unit), pre |-> buffer]
        /\ UNCHANGED <<okreads, conv>>

StreamSendCbor ==
    \E value \in StreamValues :
        /\ Len(sent) < MaxStream
        /\ buffer' = send_cbor(value, buffer)
        /\ sent' = Append(sent, [op |-> "send_cbor", arg |-> [value |-> value]])
        /\ last' = [op |-> "send_cbor", arg |-> [value |-> value],
                    res |-> Ok(Unit), pre |-> buffer]
        /\ UNCHANGED <<okreads, conv>>

ReadRequest ==
    /\ buffer' = read_request(buffer).rest
    /\ okreads' = IF read_request(buffer).res.k = "Ok" THEN okreads + 1 ELSE okreads
    /\ last' = [op |-> "read_request", arg |-> Unit,
                res |-> read_request(buffer).res, pre |-> buffer]
    /\ UNCHANGED <<sent, conv>>

ReadResponse ==
    /\ buffer' = read_response(buffer).rest
    /\ okreads' = IF read_response(buffer).res.k = "Ok" THEN okreads + 1 ELSE okreads
    /\ last' = [op |-> "read_response", arg |-> Unit,
                res |-> read_response(buffer).res, pre |-> buffer]
    /\ UNCHANGED <<sent, conv>>

ReadCbor ==
    /\ buffer' = read_cbor(buffer).rest
    /\ okreads' = IF read_cbor(buffer).res.k = "Ok" THEN okreads + 1 ELSE okreads
    /\ last' = [op |-> "read_cbor", arg |-> Unit,
                res |-> read_cbor(buffer).res, pre |-> buffer]
    /\ UNCHANGED <<sent, conv>>

ConvParams ==
    \E v \in ConvValues :
        /\ conv' = [op |-> "Params::try_from", arg |-> v, res |-> ParamsTryFrom(v)]
        /\ UNCHANGED <<buffer, sent, okreads, last>>

ConvRequestID ==
    \E v \in ConvValues :
        /\ conv' = [op |-> "RequestID::try_from", arg |-> v, res |-> RequestIDTryFrom(v)]
        /\ UNCHANGED <<buffer, sent, okreads, last>>

ConvMethodID ==
    \E v \in ConvValues :
        /\ conv' = [op |-> "MethodID::try_from", arg |-> v, res |-> MethodIDTryFrom(v)]
        /\ UNCHANGED <<buffer, sent, okreads, last>>

\* Value::from(x) followed by the try_from of the same type
BackParams ==
    \E x \in TypedParams :
        /\ conv' = [op |-> "Value::from(Params)", arg |-> x, value |-> ParamsToValue(x),
                    res |-> ParamsTryFrom(ParamsToValue(x))]
        /\ UNCHANGED <<buffer, sent, okreads, last>>

BackRequestID ==
    \E x \in TypedRequestIDs :
        /\ conv' = [op |-> "Value::from(RequestID)", arg |-> x, value |-> RequestIDToValue(x),
                    res |-> RequestIDTryFrom(RequestIDToValue(x))]
        /\ UNCHANGED <<buffer, sent, okreads, last>>

BackMethodID ==
    \E x \in TypedMethodIDs :
        /\ conv' = [op |-> "Value::from(MethodID)", arg |-> x, value |-> MethodIDToValue(x),
                    res |-> MethodIDTryFrom(MethodIDToValue(x))]
        /\ UNCHANGED <<buffer, sent, okreads, last>>

Next ==
    \/ SendRequest
    \/ SendResponse
    \/ SendCbor
    \/ ReadRequest
    \/ ReadResponse
    \/ ReadCbor

NextStream ==
    \/ StreamSendRequest
    \/ StreamSendResponse
    \/ StreamSendCbor
    \/ ReadRequest
    \/ ReadResponse
    \/ ReadCbor

NextConv ==
    \/ ConvParams
    \/ ConvRequestID
    \/ ConvMethodID

NextBack ==
    \/ BackParams
    \/ BackRequestID
    \/ BackMethodID

Spec == Init /\ [][Next]_vars
SpecStream == Init /\ [][NextStream]_vars
SpecBack == Init /\ [][NextBack]_vars
SpecConv == Init /\ [][NextConv]_vars

(* ======================================================================= *)
(* Claims                                                                  *)
(* ======================================================================= *)

IsRead == last.op \in {"read_request", "read_response", "read_cbor"}

\* The tokens the last send appended to the buffer
Written == SubSeq(buffer, Len(last.pre) + 1, Len(buffer))

\* The last call is a read of a buffer that holds exactly the frame of the
\* one message sent so far with `sendOp`
ReadsTheOnlyFrame(sendOp, readOp) ==
    /\ last.op = readOp
    /\ Len(sent) = 1
    /\ sent[1].op = sendOp
    /\ sendOp = "send_request" => last.pre = send_request(sent[1].arg.request, <<>>)
    /\ sendOp = "send_response" => last.pre = send_response(sent[1].arg.response, <<>>)

\* C1 (as claimed): send_request on an empty BufTransport followed by
\* read_request returns a Request equal to the original, for every Request.
C1_RequestRoundTrip ==
    ReadsTheOnlyFrame("send_request", "read_request")
        => last.res = Ok(sent[1].arg.request)

\* C2 (as claimed): send_response on an empty BufTransport followed by
\* read_response returns a Response equal to the original, for every
\* Response, also one whose ErrorValue has data = Some(null).
C2_ResponseRoundTrip ==
    ReadsTheOnlyFrame("send_response", "read_response")
        => last.res = Ok(sent[1].arg.response)

\* C3 (as claimed): read_response on a frame written by send_request, and
\* read_request on a frame written by send_response, fail with
\* TransportError::Proto(ProtocolError::UnexpectedMessage), for every
\* Request and every Response.
C3_WrongKindIsUnexpectedMessage ==
    \/ ReadsTheOnlyFrame("send_request", "read_response")
    \/ ReadsTheOnlyFrame("send_response", "read_request")
    => last.res = Err("Proto(UnexpectedMessage)")

\* A request-shaped or response-shaped map as a peer writes it with
\* send_cbor: with no tag, or inside a tag that is not TAG_ID_RPCV0
ShapedMaps == {RequestMap, ResponseMap}
Untagged == {Encode(m) : m \in ShapedMaps}
WrongTag == {Encode(Tag(OtherTag, m)) : m \in ShapedMaps}

\* C4: read_request and read_response return Ok only when the head of the
\* buffer is the tag 4036988077; a request- or response-shaped map with no
\* tag or with another tag fails with TransportError::Decode.
C4_TagEnforced ==
    last.op \in {"read_request", "read_response"} =>
        /\ last.res.k = "Ok" =>
              /\ last.pre # <<>>
              /\ last.pre[1] = [h |-> "tag", t |-> <<0, 0, 61599, 36013>>]
        /\ last.pre \in Untagged \cup WrongTag => last.res = Err("Decode")

C4_Witness ==
    /\ last.op = "read_request"
    /\ last.pre = Encode(Tag(OtherTag, RequestMap))
    /\ last.res = Err("Decode")
    /\ buffer = <<>>

\* What reading the frame of a sent message returns: the message itself for
\* the read of its kind, the frame's CBOR value for read_cbor
Returns(readOp, x, s) ==
    CASE readOp = "read_request" -> s.op = "send_request" /\ x = s.arg.request
      [] readOp = "read_response" -> s.op = "send_response" /\ x = s.arg.response
      [] readOp = "read_cbor" ->
            CASE s.op = "send_cbor" -> x = s.arg.value
              [] s.op = "send_request" ->
                    Ok(x) = read_cbor(send_request(s.arg.request, <<>>)).res
              [] s.op = "send_response" ->
                    Ok(x) = read_cbor(send_response(s.arg.response, <<>>)).res

\* C5 (as claimed): on one BufTransport, whatever sends and reads came
\* before, the k-th successful read returns the k-th message sent (each
\* successful read consumes exactly one whole frame from the head), and
\* after as many successful reads as sends the buffer is empty.
C5_ReadsFollowSends ==
    /\ IsRead /\ last.res.k = "Ok" =>
          /\ okreads <= Len(sent)
          /\ Returns(last.op, last.res.x, sent[okreads])
    /\ okreads = Len(sent) => buffer = <<>>

IntLe(a, b) ==
    CASE a.neg /\ ~b.neg -> TRUE
      [] ~a.neg /\ b.neg -> FALSE
      [] ~a.neg /\ ~b.neg -> U64Le(a.mag, b.mag)
      [] a.neg /\ b.neg -> U64Le(b.mag, a.mag)

InU64Range(i) == IntLe(Pos(U64(0)), i) /\ IntLe(i, Pos(U64_MAX))

\* C6: Params::try_from(Value): an array gives Params::Array with the same
\* elements in order; a map whose keys are all text gives Params::Named
\* with the pairs in the map's order; a map with a non-text key fails with
\* InvalidKeyType; every other kind fails with InvalidParamType.
C6_ParamsTryFrom ==
    conv.op = "Params::try_from" =>
        CASE conv.arg.k = "array" ->
                /\ conv.res.k = "Ok"
                /\ conv.res.x.k = "Params::Array"
                /\ Len(conv.res.x.a) = Len(conv.arg.a)
                /\ \A j \in 1..Len(conv.arg.a) : conv.res.x.a[j] = conv.arg.a[j]
          [] conv.arg.k = "map" ->
                IF \A j \in 1..Len(conv.arg.m) : conv.arg.m[j][1].k = "text"
                THEN /\ conv.res.k = "Ok"
                     /\ conv.res.x.k = "Params::Named"
                     /\ Len(conv.res.x.nv) = Len(conv.arg.m)
                     /\ \A j \in 1..Len(conv.arg.m) :
                            /\ conv.res.x.nv[j][1] = conv.arg.m[j][1].s
                            /\ conv.res.x.nv[j][2] = conv.arg.m[j][2]
                ELSE conv.res = Err("InvalidKeyType")
          [] OTHER -> conv.res = Err("InvalidParamType")

\* a map whose first key is text and whose second is not
C6_Witness ==
    /\ conv.op = "Params::try_from"
    /\ conv.arg.k = "map"
    /\ Len(conv.arg.m) = 2
    /\ conv.arg.m[1][1].k = "text"
    /\ conv.arg.m[2][1].k # "text"
    /\ conv.res = Err("InvalidKeyType")

\* C7: RequestID::try_from(Value): an integer i gives RequestID::Number(i)
\* if and only if 0 <= i <= u64::MAX and InvalidRequestID otherwise; text
\* gives RequestID::String, a byte string RequestID::Binary; every other
\* kind fails with InvalidRequestID.
C7_RequestIDTryFrom ==
    conv.op = "RequestID::try_from" =>
        CASE conv.arg.k = "int" ->
                IF InU64Range(conv.arg.i)
                THEN conv.res.k = "Ok" /\ conv.res.x.k = "RequestID::Number"
                     /\ conv.res.x.u = conv.arg.i.mag
                ELSE conv.res = Err("InvalidRequestID")
          [] conv.arg.k = "text" ->
                conv.res.k = "Ok" /\ conv.res.x.k = "RequestID::String"
                /\ conv.res.x.s = conv.arg.s
          [] conv.arg.k = "bytes" ->
                conv.res.k = "Ok" /\ conv.res.x.k = "RequestID::Binary"
                /\ conv.res.x.b = conv.arg.b
          [] OTHER -> conv.res = Err("InvalidRequestID")

\* u64::MAX is accepted
C7_Witness ==
    /\ conv.op = "RequestID::try_from"
    /\ conv.arg = Integer(Pos(<<65535, 65535, 65535, 65535>>))
    /\ conv.res = Ok(RNumber(<<65535, 65535, 65535, 65535>>))

\* C8: MethodID::try_from(Value): an integer i gives MethodID::Number(i) if
\* and only if 0 <= i <= u64::MAX and InvalidMethodID otherwise; text gives
\* MethodID::String; every other kind, byte strings included, fails with
\* InvalidMethodID.
C8_MethodIDTryFrom ==
    conv.op = "MethodID::try_from" =>
        CASE conv.arg.k = "int" ->
                IF InU64Range(conv.arg.i)
                THEN conv.res.k = "Ok" /\ conv.res.x.k = "MethodID::Number"
                     /\ conv.res.x.u = conv.arg.i.mag
                ELSE conv.res = Err("InvalidMethodID")
          [] conv.arg.k = "text" ->
                conv.res.k = "Ok" /\ conv.res.x.k = "MethodID::String"
                /\ conv.res.x.s = conv.arg.s
          [] OTHER -> conv.res = Err("InvalidMethodID")

\* a byte string is refused, as an invalid method id
C8_Witness ==
    /\ conv.op = "MethodID::try_from"
    /\ conv.arg.k = "bytes"
    /\ conv.res = Err("InvalidMethodID")

\* The number of elements of a Params
Count(p) == IF p.k = "Params::Array" THEN Len(p.a) ELSE Len(p.nv)

\* C9: p.into_option() is None exactly when p has zero elements and
\* Some(p) otherwise; a Request built with an empty p.into_option() is
\* written by send_request as the same frame as the Request with the same
\* method and req_id and params = None.
C9_IntoOptionCollapses ==
    last.op = "send_request" /\ last.arg.built.how = "into_option" =>
        /\ Count(last.arg.built.p) = 0 <=> last.arg.request.params = None
        /\ Count(last.arg.built.p) # 0 => last.arg.request.params = Some(last.arg.built.p)
        /\ Count(last.arg.built.p) = 0 =>
              Written = Encode(SerRPCMsg(MsgRequest(
                            Request(last.arg.request.method, None, last.arg.request.req_id))))

\* an empty positional Params collapsed to None and written as such
C9_Witness ==
    /\ last.op = "send_request"
    /\ last.arg.built = [how |-> "into_option", p |-> PArray(<<>>)]
    /\ last.arg.request.params = None
    /\ Written = send_request(Request(last.arg.request.method, None,
                                      last.arg.request.req_id), <<>>)

\* The keys of the map in the frame the last send wrote
WrittenValue == read_cbor(Written).res.x
WrittenKeys == {WrittenValue.v.m[j][1] : j \in 1..Len(WrittenValue.v.m)}
WrittenIsTaggedMap ==
    /\ read_cbor(Written) = [res |-> Ok(WrittenValue), rest |-> <<>>]
    /\ WrittenValue.k = "tag"
    /\ WrittenValue.t = TAG_ID_RPCV0
    /\ WrittenValue.v.k = "map"
    /\ Cardinality(WrittenKeys) = Len(WrittenValue.v.m)

\* C10 (as claimed): the frame send_request writes is a map that holds fn,
\* holds args only when params is present and not empty, holds id exactly
\* when req_id is present, and holds no other key.
C10_ArgsOnlyWhenNonEmpty ==
    last.op = "send_request" =>
        /\ WrittenIsTaggedMap
        /\ Text("fn") \in WrittenKeys
        /\ Text("args") \in WrittenKeys =>
              /\ last.arg.request.params.k = "Some"
              /\ Count(last.arg.request.params.x) # 0
        /\ Text("id") \in WrittenKeys <=> last.arg.request.req_id.k = "Some"
        /\ WrittenKeys \subseteq {Text("fn"), Text("args"), Text("id")}

\* C10 (amended): the frame send_request writes is a map that holds fn,
\* holds args exactly when params is Some (an empty Params included), holds
\* id exactly when req_id is Some, and holds no other key.
C10_ArgsWhenSome ==
    last.op = "send_request" =>
        /\ WrittenIsTaggedMap
        /\ Text("fn") \in WrittenKeys
        /\ Text("args") \in WrittenKeys <=> last.arg.request.params.k = "Some"
        /\ Text("id") \in WrittenKeys <=> last.arg.request.req_id.k = "Some"
        /\ WrittenKeys \subseteq {Text("fn"), Text("args"), Text("id")}

\* a Request with params = Some(empty) is written with the key args
C10_Witness ==
    /\ last.op = "send_request"
    /\ last.arg.request.params = Some(PArray(<<>>))
    /\ Text("args") \in WrittenKeys

\* The keys of the correctly tagged map at the head of the buffer the last
\* call found
HeadValue == read_cbor(last.pre).res.x
HeadIsTaggedMap ==
    /\ read_cbor(last.pre).res.k = "Ok"
    /\ HeadValue.k = "tag"
    /\ HeadValue.t = TAG_ID_RPCV0
    /\ HeadValue.v.k = "map"
HeadKeys == {HeadValue.v.m[j][1] : j \in 1..Len(HeadValue.v.m)}
IdAndOneOfOkErr(keys) ==
    /\ Text("id") \in keys
    /\ Text("ok") \in keys \/ Text("err") \in keys
    /\ ~(Text("ok") \in keys /\ Text("err") \in keys)

\* C11 (as claimed): read_response returns a Response for a correctly
\* tagged map only if the map holds the key id and exactly one of the keys
\* ok and err; and every frame send_response writes holds id and exactly
\* one of ok and err.
C11_ResponseShape ==
    /\ last.op = "read_response" /\ HeadIsTaggedMap /\ last.res.k = "Ok"
          => IdAndOneOfOkErr(HeadKeys)
    /\ last.op = "send_response"
          => WrittenIsTaggedMap /\ IdAndOneOfOkErr(WrittenKeys)

IsBack == conv.op \in {"Value::from(Params)", "Value::from(RequestID)", "Value::from(MethodID)"}

\* The typed values of the same type that Value::from maps to conv.value
SameValue ==
    CASE conv.op = "Value::from(Params)" ->
            {y \in TypedParams : ParamsToValue(y) = conv.value}
      [] conv.op = "Value::from(RequestID)" ->
            {y \in TypedRequestIDs : RequestIDToValue(y) = conv.value}
      [] conv.op = "Value::from(MethodID)" ->
            {y \in TypedMethodIDs : MethodIDToValue(y) = conv.value}

\* C12: for every Params, RequestID or MethodID x, T::try_from(Value::from(x))
\* is Ok(x): positional params become an array, named params a map with
\* the pairs in order, RequestID::Binary a byte string, numbers integers,
\* strings text; and no other value of the type has the same Value.
C12_ValueFromIsInverted ==
    IsBack =>
        /\ conv.res = Ok(conv.arg)
        /\ SameValue = {conv.arg}
        /\ conv.arg.k = "Params::Array" => conv.value = Array(conv.arg.a)
        /\ conv.arg.k = "Params::Named" =>
              /\ conv.value.k = "map"
              /\ Len(conv.value.m) = Len(conv.arg.nv)
              /\ \A j \in 1..Len(conv.arg.nv) :
                    conv.value.m[j] = <<Text(conv.arg.nv[j][1]), conv.arg.nv[j][2]>>
        /\ conv.arg.k = "RequestID::Binary" => conv.value = Bytes(conv.arg.b)
        /\ conv.arg.k \in {"RequestID::Number", "MethodID::Number"} =>
              conv.value = Integer(Pos(conv.arg.u))
        /\ conv.arg.k \in {"RequestID::String", "MethodID::String"} =>
              conv.value = Text(conv.arg.s)

\* named params with two pairs, b before a, come back in that order
C12_Witness ==
    /\ conv.op = "Value::from(Params)"
    /\ conv.arg.k = "Params::Named"
    /\ Len(conv.arg.nv) = 2
    /\ conv.arg.nv[1][1] = "b"
    /\ conv.arg.nv[2][1] = "a"
    /\ conv.res = Ok(conv.arg)

\* The frames of the other kind, one of which a read that fails with
\* UnexpectedMessage found at the head of the buffer
WrongKindFrames ==
    IF last.op = "read_response"
    THEN {send_request(r, <<>>) : r \in StreamRequests}
    ELSE {send_response(r, <<>>) : r \in StreamResponses}

\* C13: a read_request or read_response that fails with UnexpectedMessage
\* has removed the frame of the other kind from the head of the buffer,
\* whole and alone: the buffer is not what it was, it is what followed
\* that frame, and the next read starts at the next frame (on an empty
\* buffer it fails with an I/O error).
C13_UnexpectedMessageConsumes ==
    /\ last.op \in {"read_request", "read_response"}
    /\ last.res = Err("Proto(UnexpectedMessage)")
    => /\ buffer # last.pre
       /\ \E frame \in WrongKindFrames : last.pre = frame \o buffer
       /\ buffer = read_cbor(last.pre).rest
       /\ buffer = <<>> =>
             /\ read_request(buffer).res = Err("Io")
             /\ read_response(buffer).res = Err("Io")

\* read_response failed on a Request frame that a Response frame followed,
\* and the Response frame is what the buffer now holds
C13_Witness ==
    /\ last.op = "read_response"
    /\ last.res = Err("Proto(UnexpectedMessage)")
    /\ \E a \in StreamRequests, b \in StreamResponses :
          /\ last.pre = send_response(b, send_request(a, <<>>))
          /\ buffer = send_response(b, <<>>)
          /\ read_response(buffer).res = Ok(b)

====
